---- MODULE Spec2Model ----
(***************************************************************************)
(* Model of the grid path finder of src/rust/src/game.rs: the Node         *)
(* ordering, the search of AStarController::calculate_path with its        *)
(* same-f-score batch, reconstruct_path, the step gate (a tokio broadcast  *)
(* channel of capacity 1), the input handlers of Game and the color and    *)
(* labels of the blocks (block.rs).                                        *)
(***************************************************************************)
EXTENDS Integers, Sequences, FiniteSets, TLC

VARIABLES
    width,          \* Game.width / AStarController.width
    height,         \* Game.height / AStarController.height
    wall,           \* Block.is_wall of every block, fixed by Game::ready
    start_block,    \* Game.controller.start_block (Option)
    end_block,      \* Game.controller.end_block (Option)
    step_mode,      \* Game.step_mode
    is_processing,  \* Game.is_processing
    tx,             \* Game.tx (Option of the channel the Sender belongs to)
    tasks,          \* the tasks spawned by on_block_clicked, in spawn order
    chan,           \* the broadcast channels created by on_block_clicked
    fatal,          \* the failed unwraps raised so far
    blocks,         \* the color and the f, g, h labels of every Block
    heap,           \* a BinaryHeap<Node> on its own (ordering specification)
    popped          \* the nodes popped from heap, in pop order

vars == <<width, height, wall, start_block, end_block, step_mode,
          is_processing, tx, tasks, chan, fatal, blocks, heap, popped>>

gameVars == <<width, height, wall, start_block, end_block, step_mode,
              is_processing, tx, tasks, chan, fatal, blocks>>

(***************************************************************************)
(* Bounds of the model.                                                    *)
(***************************************************************************)
MaxWidth == 4
MaxHeight == 3
MaxWalls == 1
MaxRuns == 2
UIWidth == 3
UIHeight == 1
UIMaxWalls == 1
MaxCoord == 1
MaxScore == 1
MaxHeapLen == 3
LiveRuns == 1
StepWidth == 3
StepHeight == 2
StepMaxWalls == 1

I32Max == 2147483647

(***************************************************************************)
(* Option<T> is the empty set (None) or a singleton (Some).                *)
(***************************************************************************)
None == {}
Some(v) == {v}
Unwrap(o) == CHOOSE v \in o : TRUE

Abs(n) == IF n < 0 THEN -n ELSE n

Cells(w, h) == (0 .. w - 1) \X (0 .. h - 1)

(***************************************************************************)
(* Node and its ordering.                                                  *)
(***************************************************************************)
NodeNew(position, g_score, h_score) ==
    [position |-> position, f_score |-> g_score + h_score,
     g_score |-> g_score, h_score |-> h_score]

IntCmp(a, b) == IF a < b THEN "Less" ELSE IF a = b THEN "Equal" ELSE "Greater"

TupleCmp(a, b) ==
    IF a[1] # b[1] THEN IntCmp(a[1], b[1]) ELSE IntCmp(a[2], b[2])

ThenWith(first, second) == IF first = "Equal" THEN second ELSE first

\* cmp with the positions compared the other way round: the final
\* tie-breaker would then prefer the greater position.
cmpSamePositionOrder(self, other) ==
    ThenWith(ThenWith(IntCmp(other.f_score, self.f_score),
                      IntCmp(other.h_score, self.h_score)),
             TupleCmp(self.position, other.position))

cmp(self, other) ==
    ThenWith(ThenWith(IntCmp(other.f_score, self.f_score),
                      IntCmp(other.h_score, self.h_score)),
             TupleCmp(other.position, self.position))

\* BinaryHeap::peek: the greatest entry under Ord.
HeapPeek(h) == CHOOSE n \in h : \A m \in h : cmp(n, m) # "Less"

\* BinaryHeap::pop leaves the heap without its greatest entry.
HeapRest(h) == h \ {HeapPeek(h)}

(***************************************************************************)
(* AStarController helpers.                                                *)
(***************************************************************************)
\* DIRECTIONS with the third direction, Down, forgotten.
DIRECTIONSWithoutDown == << <<0, -1>>, <<1, 0>>, <<-1, 0>> >>

\* DIRECTIONS with the last direction, Left, forgotten.
DIRECTIONSWithoutLeft == << <<0, -1>>, <<1, 0>>, <<0, 1>> >>

DIRECTIONS == << <<0, -1>>, <<1, 0>>, <<0, 1>>, <<-1, 0>> >>

InBounds(x, y) == x >= 0 /\ x < width /\ y >= 0 /\ y < height

get_block(x, y) == IF InBounds(x, y) THEN Some(<<x, y>>) ELSE None

manhattan_distance(a, b) == Abs(a[1] - b[1]) + Abs(a[2] - b[2])

\* get_neighbors without the is_wall test.
get_neighborsThroughWalls(pos) ==
    SelectSeq([i \in DOMAIN DIRECTIONS |-> <<pos[1] + DIRECTIONS[i][1],
                                  pos[2] + DIRECTIONS[i][2]>>],
              LAMBDA n : InBounds(n[1], n[2]))

get_neighbors(pos) ==
    SelectSeq([i \in DOMAIN DIRECTIONS |-> <<pos[1] + DIRECTIONS[i][1],
                                  pos[2] + DIRECTIONS[i][2]>>],
              LAMBDA n : IF InBounds(n[1], n[2])
                         THEN get_block(n[1], n[2]) # None /\ ~wall[n]
                         ELSE FALSE)

\* The element of a singleton.  Only({e(x) : x \in {v}}) is LET x == v IN e(x)
\* with v computed once, however often e uses x.
Only(S) == CHOOSE v \in S : TRUE

Get(map, key, default) == IF key \in DOMAIN map THEN map[key] ELSE default

Insert(map, key, value) == (key :> value) @@ map

(***************************************************************************)
(* Block (block.rs): its color (self_modulate) and the texts of its f, g,  *)
(* h labels (None is the empty text).  The operators take the blocks b of  *)
(* the grid and give them back with the block at pos written.              *)
(***************************************************************************)
original_color == "WHITE"
START_BLOCK_COLOR == "DARK_BLUE"
END_BLOCK_COLOR == "BLUE"
WALL_BLOCK_COLOR == "ORANGE_RED"
PATH_BLOCK_COLOR == "VIOLET"
OPEN_BLOCK_COLOR == "YELLOW"
CLOSED_BLOCK_COLOR == "DARK_ORANGE"
CURRENT_BLOCK_COLOR == "DARK_GREEN"

set_color(b, pos, color) == [b EXCEPT ![pos].color = color]

set_f(b, pos, f) == [b EXCEPT ![pos].f = Some(f)]

set_g(b, pos, g) == [b EXCEPT ![pos].g = Some(g)]

set_h(b, pos, h) == [b EXCEPT ![pos].h = Some(h)]

reset_labels(b, pos) == [b EXCEPT ![pos].f = None, ![pos].g = None, ![pos].h = None]

reset_color(b, pos) ==
    reset_labels(IF ~wall[pos] THEN set_color(b, pos, original_color) ELSE b,
                 pos)

\* Block::ready, then set_as_wall for the blocks Game::ready makes walls.
BlockReady(is_wall) ==
    [color |-> IF is_wall THEN WALL_BLOCK_COLOR ELSE original_color,
     f |-> None, g |-> None, h |-> None]

\* AStarController::reset_block_color.
reset_block_color(b, x, y) ==
    IF get_block(x, y) # None THEN reset_color(b, <<x, y>>) ELSE b

\* The loop over the grid that resets every block that is neither the
\* start block, nor the end block, nor a wall.
reset_all_non_wall_blocks(b, start, end) ==
    [pos \in DOMAIN b |->
        IF pos \notin start /\ pos \notin end /\ ~wall[pos]
        THEN reset_block_color(b, pos[1], pos[2])[pos]
        ELSE b[pos]]

\* set_f, set_g and set_h of one block.
SetLabels(b, pos, f, g, h) == set_h(set_g(set_f(b, pos, f), pos, g), pos, h)

(***************************************************************************)
(* The search of calculate_path.  A run t is the record of one spawned     *)
(* task: its clone of the controller (start, end), its receiver rx, the    *)
(* locals of calculate_path, and what the run has done so far: the         *)
(* positions it expanded, in order (expanded), those of them expanded by   *)
(* the same-f-score batch (batched), the path and the outcome, the number  *)
(* of nodes it goal-tested or expanded (processed), of passes of the main  *)
(* loop (gated), of values it received from the gate (received) and of     *)
(* neighbors it pushed onto open_set (pushed), and the positions it        *)
(* goal-tested or expanded while an entry that the heap gives before them  *)
(* was in open_set (overtaken).                                            *)
(***************************************************************************)

\* The positions of a task: spawned (not polled yet), gate (at rx.recv()),
\* sleeping (calculate_path has returned), finished, panicked.
Returned(t) == t.pc \in {"sleeping", "finished"}

InFlight(t) == t.pc \in {"spawned", "gate", "sleeping"}

\* An entry of open_set is greater than node under Ord: pop gives it first.
Overtakes(open_set, node) == \E entry \in open_set : cmp(entry, node) = "Greater"

\* Relax that records the predecessor before any test: every neighbor of
\* an expanded position, settled or not, is given that position.
RelaxRecordsPredecessorFirst(t, pos, neighbor_pos) ==
    IF neighbor_pos \in t.closed_set
    THEN [t EXCEPT !.came_from = Insert(@, neighbor_pos, pos)]
    ELSE LET tentative_g_score == Get(t.g_scores, pos, I32Max)
             previous_g_score == Get(t.g_scores, neighbor_pos, I32Max)
             h_score == manhattan_distance(neighbor_pos, Unwrap(t.end))
         IN  IF tentative_g_score < previous_g_score
             THEN [t EXCEPT
                     !.came_from = Insert(@, neighbor_pos, pos),
                     !.g_scores = Insert(@, neighbor_pos, tentative_g_score),
                     !.open_set = @ \cup {NodeNew(neighbor_pos,
                                                  tentative_g_score, h_score)},
                     !.pushed = @ + 1]
             ELSE [t EXCEPT !.came_from = Insert(@, neighbor_pos, pos)]

\* Relax without the closed set test and with <= for <: a neighbor is
\* pushed again whenever its cost is not worse, settled or not.
RelaxRepushesClosed(t, pos, neighbor_pos) ==
    LET tentative_g_score == Get(t.g_scores, pos, I32Max)
        previous_g_score == Get(t.g_scores, neighbor_pos, I32Max)
        h_score == manhattan_distance(neighbor_pos, Unwrap(t.end))
    IN  IF tentative_g_score <= previous_g_score
        THEN [t EXCEPT
                !.came_from = Insert(@, neighbor_pos, pos),
                !.g_scores = Insert(@, neighbor_pos, tentative_g_score),
                !.open_set = @ \cup {NodeNew(neighbor_pos,
                                             tentative_g_score, h_score)},
                !.pushed = @ + 1]
        ELSE t

\* One neighbor of an expanded position (the body of the neighbor loops).
Relax(t, pos, neighbor_pos) ==
    IF neighbor_pos \in t.closed_set THEN t
    ELSE LET tentative_g_score == Get(t.g_scores, pos, I32Max)
             previous_g_score == Get(t.g_scores, neighbor_pos, I32Max)
             h_score == manhattan_distance(neighbor_pos, Unwrap(t.end))
         IN  IF tentative_g_score < previous_g_score
             THEN [t EXCEPT
                     !.came_from = Insert(@, neighbor_pos, pos),
                     !.g_scores = Insert(@, neighbor_pos, tentative_g_score),
                     !.open_set = @ \cup {NodeNew(neighbor_pos,
                                                  tentative_g_score, h_score)},
                     !.pushed = @ + 1,
                     !.blocks =
                        IF neighbor_pos \notin t.start
                           /\ neighbor_pos \notin t.end
                           /\ get_block(neighbor_pos[1], neighbor_pos[2]) # None
                        THEN LET labelled ==
                                   SetLabels(@, neighbor_pos,
                                             tentative_g_score + h_score,
                                             tentative_g_score, h_score)
                             IN  IF neighbor_pos \notin t.closed_set
                                 THEN set_color(labelled, neighbor_pos,
                                                OPEN_BLOCK_COLOR)
                                 ELSE labelled
                        ELSE @]
             ELSE t

RECURSIVE RelaxAll(_, _, _)
RelaxAll(t, pos, neighbors) ==
    IF neighbors = <<>> THEN t
    ELSE Only({RelaxAll(relaxed, pos, Tail(neighbors)) :
                  relaxed \in {Relax(t, pos, Head(neighbors))}})

\* The neighbor loop of an expanded position.
ExpandNeighbors(t, pos) == RelaxAll(t, pos, get_neighbors(pos))

\* The peek loop: pops the entries on top of the heap whose f_score is f.
RECURSIVE TakeSameFScore(_, _, _)
TakeSameFScore(open_set, f, taken) ==
    IF open_set = {} THEN [nodes |-> taken, rest |-> open_set]
    ELSE Only({IF next_node.f_score = f
               THEN TakeSameFScore(open_set \ {next_node}, f,
                                   Append(taken, next_node))
               ELSE [nodes |-> taken, rest |-> open_set] :
                  next_node \in {HeapPeek(open_set)}})

\* The predecessor walk of reconstruct_path; fuel bounds a walk on a cycle.
RECURSIVE WalkBack(_, _, _, _, _)
WalkBack(came_from, current, start_pos, path, fuel) ==
    IF current \notin DOMAIN came_from THEN [path |-> path, ended |-> TRUE]
    ELSE IF fuel = 0 THEN [path |-> path, ended |-> FALSE]
    ELSE LET prev == came_from[current]
         IN  IF prev = start_pos
             THEN [path |-> Append(path, current), ended |-> TRUE]
             ELSE WalkBack(came_from, prev, start_pos,
                           Append(path, current), fuel - 1)

\* The loop over the path that colors its blocks, start and end excepted.
RECURSIVE ColorPath(_, _, _, _)
ColorPath(b, path, start, end) ==
    IF path = <<>> THEN b
    ELSE LET pos == Head(path)
         IN  ColorPath(IF pos \notin start /\ pos \notin end
                          /\ get_block(pos[1], pos[2]) # None
                       THEN set_color(b, pos, PATH_BLOCK_COLOR)
                       ELSE b,
                       Tail(path), start, end)

\* reconstruct_path with a loop that pushes current before it looks it up
\* in came_from: the path then holds end_pos even when nothing leads to it.
reconstruct_pathPushesFirst(t, end_pos) ==
    LET walk == WalkBack(t.came_from, end_pos, Unwrap(t.start), <<>>,
                         width * height + 1)
        path == IF end_pos \in DOMAIN t.came_from THEN walk.path
                ELSE <<end_pos>>
    IN  [t EXCEPT !.path = path,
                  !.outcome = IF walk.ended THEN "Found" ELSE "Diverged",
                  !.blocks = ColorPath(@, path, t.start, t.end)]

reconstruct_path(t, end_pos) ==
    LET walk == WalkBack(t.came_from, end_pos, Unwrap(t.start), <<>>,
                         width * height + 1)
    IN  [t EXCEPT !.path = walk.path,
                  !.outcome = IF walk.ended THEN "Found" ELSE "Diverged",
                  !.blocks = ColorPath(@, walk.path, t.start, t.end)]

\* The loop over same_f_score_nodes.
RECURSIVE ProcessSameFScore(_, _, _)
ProcessSameFScore(t, nodes, current_pos) ==
    IF nodes = <<>> THEN t
    ELSE LET node == Head(nodes)
             node_pos == node.position
         IN  IF node_pos \in t.closed_set
             THEN ProcessSameFScore(t, Tail(nodes), current_pos)
             ELSE IF node_pos = Unwrap(t.end)
             THEN reconstruct_path(
                      [t EXCEPT !.came_from = Insert(@, node_pos, current_pos),
                                !.g_scores = Insert(@, node_pos, node.g_score),
                                !.processed = @ + 1,
                                !.overtaken = IF Overtakes(t.open_set, node)
                                              THEN @ \cup {node_pos} ELSE @],
                      Unwrap(t.end))
             ELSE Only({ProcessSameFScore(expanded, Tail(nodes), current_pos) :
                      expanded \in {ExpandNeighbors(
                          [t EXCEPT !.closed_set = @ \cup {node_pos},
                                    !.expanded = Append(@, node_pos),
                                    !.batched = @ \cup {node_pos},
                                    !.processed = @ + 1,
                                    !.overtaken =
                                       IF Overtakes(t.open_set, node)
                                       THEN @ \cup {node_pos} ELSE @,
                                    !.blocks =
                                       IF node_pos \notin t.start
                                          /\ node_pos \notin t.end
                                          /\ get_block(node_pos[1],
                                                       node_pos[2]) # None
                                       THEN set_color(
                                                SetLabels(@, node_pos,
                                                          node.f_score,
                                                          node.g_score,
                                                          node.h_score),
                                                node_pos, CLOSED_BLOCK_COLOR)
                                       ELSE @],
                          node_pos)}})

\* Visualize without the test that spares the start and the end block.
VisualizeColorsEndpoints(t, current) ==
    LET current_pos == current.position
    IN  IF get_block(current_pos[1], current_pos[2]) # None
        THEN LET labelled == SetLabels(t.blocks, current_pos,
                                       current.f_score, current.g_score,
                                       current.h_score)
                 closed == IF t.last_block # None
                           THEN set_color(labelled, Unwrap(t.last_block),
                                          CLOSED_BLOCK_COLOR)
                           ELSE labelled
             IN  [t EXCEPT !.blocks = set_color(closed, current_pos,
                                                CURRENT_BLOCK_COLOR),
                           !.last_block = Some(current_pos)]
        ELSE [t EXCEPT !.last_block = None]

\* The coloring of the node the main loop expands: its labels are written,
\* the block expanded before it turns closed and it becomes the current one.
Visualize(t, current) ==
    LET current_pos == current.position
    IN  IF current_pos \notin t.start /\ current_pos \notin t.end
        THEN IF get_block(current_pos[1], current_pos[2]) # None
             THEN LET labelled == SetLabels(t.blocks, current_pos,
                                            current.f_score, current.g_score,
                                            current.h_score)
                      closed == IF t.last_block # None
                                THEN set_color(labelled, Unwrap(t.last_block),
                                               CLOSED_BLOCK_COLOR)
                                ELSE labelled
                  IN  [t EXCEPT !.blocks = set_color(closed, current_pos,
                                                     CURRENT_BLOCK_COLOR),
                                !.last_block = Some(current_pos)]
             ELSE [t EXCEPT !.last_block = None]
        ELSE t

\* One pass of the body of the main loop, for the popped node t.current.
LoopBody(t) ==
    LET current == Unwrap(t.current)
        current_pos == current.position
        end_pos == Unwrap(t.end)
        t0 == [t EXCEPT !.processed = @ + 1, !.gated = @ + 1,
                        !.overtaken = IF Overtakes(t.open_set, current)
                                      THEN @ \cup {current_pos} ELSE @]
    IN  IF current_pos = end_pos THEN reconstruct_path(t0, end_pos)
        ELSE IF current_pos \in t.closed_set THEN t0
        ELSE Only({Only({ProcessSameFScore([t1 EXCEPT !.open_set = same.rest],
                                           same.nodes, current_pos) :
                         same \in {TakeSameFScore(t1.open_set,
                                                  current.f_score, <<>>)}}) :
                 t1 \in {ExpandNeighbors(
                     Visualize([t0 EXCEPT !.closed_set = @ \cup {current_pos},
                                          !.expanded = Append(@, current_pos)],
                               current),
                     current_pos)}})

\* PopNext that takes the least entry under Ord where pop gives the greatest.
PopNextLeast(t) ==
    [t EXCEPT !.current = Some(CHOOSE n \in t.open_set :
                                  \A m \in t.open_set : cmp(n, m) # "Greater"),
              !.open_set = @ \ {CHOOSE n \in t.open_set :
                                  \A m \in t.open_set : cmp(n, m) # "Greater"},
              !.pc = "gate"]

\* The head of the main loop: while let Some(current) = open_set.pop().
PopNext(t) ==
    [t EXCEPT !.current = Some(HeapPeek(t.open_set)),
              !.open_set = HeapRest(t.open_set),
              !.pc = "gate"]

\* The return of calculate_path drops its locals.
Return(t) ==
    [t EXCEPT !.pc = "sleeping", !.current = None, !.open_set = {},
              !.closed_set = {}, !.came_from = <<>>, !.g_scores = <<>>,
              !.last_block = None]

\* The body for the popped node, then the next pop or the return.
Iterate(t) ==
    Only({IF b.outcome # "none" THEN Return(b)
          ELSE IF b.open_set = {}
          THEN Return([b EXCEPT !.outcome = "NotFound"])
          ELSE PopNext(b) :
             b \in {LoopBody(t)}})

\* Resume that loses the node popped before the suspension and pops again.
ResumeWithNextPop(t) ==
    IF t.open_set = {}
    THEN Return([t EXCEPT !.received = @ + 1, !.outcome = "NotFound"])
    ELSE Iterate(PopNext([t EXCEPT !.received = @ + 1]))

\* The pass of the loop that follows a value received from the gate.
Resume(t) == Iterate([t EXCEPT !.received = @ + 1])

\* The main loop without a receiver: runs to its return in one piece.
RECURSIVE RunLoop(_)
RunLoop(t) ==
    IF t.pc = "gate" THEN Only({RunLoop(next) : next \in {Iterate(t)}})
    ELSE t

\* BeginSearch with a closed set that outlives the runs: it starts with the
\* positions the earlier runs expanded.
BeginSearchKeepsClosedSet(t) ==
    IF t.start = None \/ t.end = None
    THEN Return([t EXCEPT
                   !.blocks = reset_all_non_wall_blocks(@, t.start, t.end),
                   !.outcome = "NotReady"])
    ELSE LET start_pos == Unwrap(t.start)
             end_pos == Unwrap(t.end)
             h_score == manhattan_distance(start_pos, end_pos)
             earlier == UNION {{tasks[i].expanded[k] :
                                   k \in 1 .. Len(tasks[i].expanded)} :
                               i \in {j \in 1 .. Len(tasks) : Returned(tasks[j])}}
         IN  PopNext([t EXCEPT
                        !.blocks = reset_all_non_wall_blocks(@, t.start, t.end),
                        !.open_set = {NodeNew(start_pos, 0, h_score)},
                        !.closed_set = earlier \ {start_pos},
                        !.came_from = <<>>,
                        !.g_scores = (start_pos :> 0)])

\* BeginSearch whose end position falls back on (0, 0) where the code
\* returns for an end block that is not set.
BeginSearchDefaultsEnd(t) ==
    IF t.start = None
    THEN Return([t EXCEPT
                   !.blocks = reset_all_non_wall_blocks(@, t.start, t.end),
                   !.outcome = "NotReady"])
    ELSE LET start_pos == Unwrap(t.start)
             end_pos == IF t.end = None THEN <<0, 0>> ELSE Unwrap(t.end)
             h_score == manhattan_distance(start_pos, end_pos)
         IN  PopNext([t EXCEPT
                        !.blocks = reset_all_non_wall_blocks(@, t.start, t.end),
                        !.end = Some(end_pos),
                        !.open_set = {NodeNew(start_pos, 0, h_score)},
                        !.closed_set = {},
                        !.came_from = <<>>,
                        !.g_scores = (start_pos :> 0),
                        !.last_block = None])

\* calculate_path up to its first pop.
BeginSearch(t) ==
    IF t.start = None \/ t.end = None
    THEN Return([t EXCEPT
                   !.blocks = reset_all_non_wall_blocks(@, t.start, t.end),
                   !.outcome = "NotReady"])
    ELSE LET start_pos == Unwrap(t.start)
             end_pos == Unwrap(t.end)
             h_score == manhattan_distance(start_pos, end_pos)
         IN  PopNext([t EXCEPT
                        !.blocks = reset_all_non_wall_blocks(@, t.start, t.end),
                        !.open_set = {NodeNew(start_pos, 0, h_score)},
                        !.closed_set = {},
                        !.came_from = <<>>,
                        !.g_scores = (start_pos :> 0),
                        !.last_block = None])

(***************************************************************************)
(* The step gate: channel::<bool>(1).  pending counts the values sent and  *)
(* not yet received (2 stands for 2 or more: the receiver has lagged).     *)
(***************************************************************************)
NewChannel == [pending |-> 0, tx_alive |-> TRUE, rx_alive |-> TRUE]

\* Dropping the Sender held in an Option (None drops nothing).
DropSender(channels, sender) ==
    [c \in DOMAIN channels |->
        IF c \in sender THEN [channels[c] EXCEPT !.tx_alive = FALSE]
        ELSE channels[c]]

\* Dropping the Receiver held in an Option.
DropReceiver(channels, receiver) ==
    [c \in DOMAIN channels |->
        IF c \in receiver THEN [channels[c] EXCEPT !.rx_alive = FALSE]
        ELSE channels[c]]

\* Sender::send: Err when no receiver is alive, else the value is stored.
SendOk(channel) == channel.rx_alive

\* AfterSend of a send that stores nothing.
AfterSendStoresNothing(channel) == channel

AfterSend(channel) ==
    [channel EXCEPT !.pending = IF @ >= 1 THEN 2 ELSE 1]

\* Receiver::recv: "Ok", "Lagged", "Closed", or "Pending" (the task waits).
RecvResult(channel) ==
    IF channel.pending = 1 THEN "Ok"
    ELSE IF channel.pending > 1 THEN "Lagged"
    ELSE IF ~channel.tx_alive THEN "Closed"
    ELSE "Pending"

(***************************************************************************)
(* The tasks.                                                              *)
(***************************************************************************)
NewTask(start, end, rx) ==
    [pc |-> "spawned", start |-> start, end |-> end, rx |-> rx,
     open_set |-> {}, closed_set |-> {}, came_from |-> <<>>,
     g_scores |-> <<>>, current |-> None,
     expanded |-> <<>>, batched |-> {}, path |-> <<>>, outcome |-> "none",
     processed |-> 0, gated |-> 0, received |-> 0, pushed |-> 0,
     blocks |-> <<>>, last_block |-> None, overtaken |-> {}]

\* A polled task writes the blocks of the Game: its clone of the controller
\* holds references to the same Block objects.  The field blocks of a task
\* stands for them while the task is polled and is empty otherwise.
Polled(t) == [t EXCEPT !.blocks = blocks]

\* What a task that reaches the end of calculate_path or dies gives up.
Settle(i, t) ==
    \E settled \in {t} :
        /\ tasks' = [tasks EXCEPT ![i] = [settled EXCEPT !.blocks = <<>>]]
        /\ blocks' = settled.blocks
        /\ chan' = IF settled.pc = "gate" THEN chan
                   ELSE DropReceiver(chan, settled.rx)

\* TaskStart that never waits at the gate, with or without a receiver.
TaskStartIgnoresReceiver(i) ==
    /\ tasks[i].pc = "spawned"
    /\ Settle(i, RunLoop(BeginSearch(Polled(tasks[i]))))
    /\ UNCHANGED <<width, height, wall, start_block, end_block, step_mode,
                   is_processing, tx, fatal, heap, popped>>

\* TaskStart that suspends at the first pop whether there is a receiver or
\* not (the rx test of the loop head forgotten).
TaskStartAlwaysSuspends(i) ==
    /\ tasks[i].pc = "spawned"
    /\ Settle(i, BeginSearch(Polled(tasks[i])))
    /\ UNCHANGED <<width, height, wall, start_block, end_block, step_mode,
                   is_processing, tx, fatal, heap, popped>>

\* The first poll of a task: calculate_path up to the gate or, without a
\* receiver, up to its return.
TaskStart(i) ==
    /\ tasks[i].pc = "spawned"
    /\ \E begun \in {BeginSearch(Polled(tasks[i]))} :
          IF tasks[i].rx = None THEN Settle(i, RunLoop(begun))
          ELSE Settle(i, begun)
    /\ UNCHANGED <<width, height, wall, start_block, end_block, step_mode,
                   is_processing, tx, fatal, heap, popped>>

\* rx.recv().await.unwrap() and the pass of the loop that follows it.
TaskRecv(i) ==
    /\ tasks[i].pc = "gate"
    /\ tasks[i].rx # None
    /\ LET c == Unwrap(tasks[i].rx)
           r == RecvResult(chan[c])
       IN  /\ r # "Pending"
           /\ IF r = "Ok"
              THEN \E t \in {Resume(Polled(tasks[i]))} :
                   LET received == [chan EXCEPT ![c].pending = 0]
                   IN  /\ tasks' = [tasks EXCEPT ![i] = [t EXCEPT !.blocks = <<>>]]
                       /\ blocks' = t.blocks
                       /\ chan' = IF t.pc = "gate" THEN received
                                  ELSE DropReceiver(received, t.rx)
                       /\ fatal' = fatal
              ELSE /\ tasks' = [tasks EXCEPT ![i].pc = "panicked"]
                   /\ blocks' = blocks
                   /\ chan' = DropReceiver(chan, tasks[i].rx)
                   /\ fatal' = fatal \cup {"recv"}
    /\ UNCHANGED <<width, height, wall, start_block, end_block, step_mode,
                   is_processing, tx, heap, popped>>

\* The end of the spawned future, after calculate_path and the sleep.
TaskFinish(i) ==
    /\ tasks[i].pc = "sleeping"
    /\ tasks' = [tasks EXCEPT ![i].pc = "finished"]
    /\ is_processing' = FALSE
    /\ tx' = None
    /\ chan' = DropSender(chan, tx)
    /\ UNCHANGED <<width, height, wall, start_block, end_block, step_mode,
                   fatal, blocks, heap, popped>>

(***************************************************************************)
(* The handlers of Game.                                                   *)
(***************************************************************************)
set_as_start_block(x, y) ==
    /\ blocks' = IF get_block(x, y) # None
                 THEN set_color(blocks, <<x, y>>, START_BLOCK_COLOR)
                 ELSE blocks
    /\ start_block' = Some(<<x, y>>)

set_as_end_block(x, y) ==
    /\ blocks' = IF get_block(x, y) # None
                 THEN set_color(blocks, <<x, y>>, END_BLOCK_COLOR)
                 ELSE blocks
    /\ end_block' = Some(<<x, y>>)

\* The rest of the end branch of on_block_clicked: the controller is cloned
\* with the end block just set, the gate is created and the task spawned.
SpawnCalculatePath(end) ==
    /\ Len(tasks) < MaxRuns
    /\ is_processing' = TRUE
    /\ LET i == Len(tasks) + 1
       IN  IF step_mode
           THEN /\ tx' = Some(i)
                /\ chan' = (i :> NewChannel) @@ DropSender(chan, tx)
                /\ tasks' = Append(tasks, NewTask(start_block, end, Some(i)))
           ELSE /\ tx' = tx
                /\ chan' = chan
                /\ tasks' = Append(tasks, NewTask(start_block, end, None))

\* on_block_clicked without the is_wall test.
on_block_clickedOnWalls(x, y) ==
    IF get_block(x, y) = None
    THEN UNCHANGED vars
    ELSE IF start_block = None
    THEN /\ set_as_start_block(x, y)
         /\ UNCHANGED <<width, height, wall, end_block, step_mode,
                        is_processing, tx, tasks, chan, fatal, heap, popped>>
    ELSE IF end_block = None
    THEN /\ set_as_end_block(x, y)
         /\ SpawnCalculatePath(Some(<<x, y>>))
         /\ UNCHANGED <<width, height, wall, start_block, step_mode, fatal,
                        heap, popped>>
    ELSE UNCHANGED vars

\* on_block_clicked whose second branch is a plain else: with start set,
\* every click sets the end block and spawns a run.
on_block_clickedRetriggers(x, y) ==
    IF get_block(x, y) = None \/ wall[<<x, y>>]
    THEN UNCHANGED vars
    ELSE IF start_block = None
    THEN /\ set_as_start_block(x, y)
         /\ UNCHANGED <<width, height, wall, end_block, step_mode,
                        is_processing, tx, tasks, chan, fatal, heap, popped>>
    ELSE /\ set_as_end_block(x, y)
         /\ SpawnCalculatePath(Some(<<x, y>>))
         /\ UNCHANGED <<width, height, wall, start_block, step_mode, fatal,
                        heap, popped>>

on_block_clicked(x, y) ==
    IF get_block(x, y) = None \/ wall[<<x, y>>]
    THEN UNCHANGED vars
    ELSE IF start_block = None
    THEN /\ set_as_start_block(x, y)
         /\ UNCHANGED <<width, height, wall, end_block, step_mode,
                        is_processing, tx, tasks, chan, fatal, heap, popped>>
    ELSE IF end_block = None
    THEN /\ set_as_end_block(x, y)
         /\ SpawnCalculatePath(Some(<<x, y>>))
         /\ UNCHANGED <<width, height, wall, start_block, step_mode, fatal,
                        heap, popped>>
    ELSE UNCHANGED vars

on_block_right_clicked ==
    /\ start_block' = None
    /\ end_block' = None
    /\ LET start_reset == IF start_block # None
                          THEN reset_block_color(blocks,
                                                 Unwrap(start_block)[1],
                                                 Unwrap(start_block)[2])
                          ELSE blocks
           end_reset == IF end_block # None
                        THEN reset_block_color(start_reset,
                                               Unwrap(end_block)[1],
                                               Unwrap(end_block)[2])
                        ELSE start_reset
       IN  blocks' = reset_all_non_wall_blocks(end_reset, None, None)
    /\ UNCHANGED <<width, height, wall, step_mode, is_processing, tx, tasks,
                   chan, fatal, heap, popped>>

\* Game::input for a pressed T.
InputKeyT ==
    /\ step_mode' = IF ~is_processing THEN ~step_mode ELSE step_mode
    /\ UNCHANGED <<width, height, wall, start_block, end_block, is_processing,
                   tx, tasks, chan, fatal, blocks, heap, popped>>

\* Game::input for a pressed SPACE.
InputKeySpace ==
    /\ IF is_processing /\ step_mode /\ tx # None
       THEN LET c == Unwrap(tx)
            IN  IF SendOk(chan[c])
                THEN /\ chan' = [chan EXCEPT ![c] = AfterSend(@)]
                     /\ fatal' = fatal
                ELSE /\ chan' = chan
                     /\ fatal' = fatal \cup {"send"}
       ELSE UNCHANGED <<chan, fatal>>
    /\ UNCHANGED <<width, height, wall, start_block, end_block, step_mode,
                   is_processing, tx, tasks, blocks, heap, popped>>

(***************************************************************************)
(* Specifications.                                                         *)
(***************************************************************************)
RECURSIVE SubsetsUpTo(_, _)
SubsetsUpTo(S, k) ==
    IF k = 0 THEN {{}}
    ELSE LET smaller == SubsetsUpTo(S, k - 1)
         IN  smaller \cup {s \cup {c} : s \in smaller, c \in S}

\* Game::ready leaves a grid of w x h blocks, each a wall or not.
Ready(w, h, maxWalls) ==
    /\ width = w
    /\ height = h
    /\ wall \in {[c \in Cells(w, h) |-> c \in W] :
                    W \in SubsetsUpTo(Cells(w, h), maxWalls)}
    /\ blocks = [pos \in Cells(w, h) |-> BlockReady(wall[pos])]
    /\ start_block = None
    /\ end_block = None
    /\ step_mode \in BOOLEAN
    /\ is_processing = FALSE
    /\ tx = None
    /\ tasks = <<>>
    /\ chan = <<>>
    /\ fatal = {}

\* The clicked coordinates: every block, and two that name no block.
Clicks == Cells(width, height) \cup {<<-1, 0>>, <<width, height>>}

Tasks == 1 .. Len(tasks)

\* Any user: every input at any time, interleaved with the tasks.
Init == Ready(UIWidth, UIHeight, UIMaxWalls) /\ heap = {} /\ popped = <<>>

Next ==
    \/ \E p \in Clicks : on_block_clicked(p[1], p[2])
    \/ on_block_right_clicked
    \/ InputKeyT
    \/ InputKeySpace
    \/ \E i \in Tasks : TaskStart(i)
    \/ \E i \in Tasks : TaskRecv(i)
    \/ \E i \in Tasks : TaskFinish(i)

Spec == Init /\ [][Next]_vars

\* The scheduling of the tasks: Godot polls a spawned task and a task whose
\* receiver was woken, and the timer of the 100 ms sleep fires.
Fairness ==
    \A i \in 1 .. MaxRuns :
        /\ WF_vars(i \in Tasks /\ TaskStart(i))
        /\ WF_vars(i \in Tasks /\ TaskRecv(i))
        /\ WF_vars(i \in Tasks /\ TaskFinish(i))

\* Any user and the scheduling of the tasks, for the runs up to LiveRuns.
LiveNext ==
    \/ \E p \in Clicks : Len(tasks) < LiveRuns /\ on_block_clicked(p[1], p[2])
    \/ on_block_right_clicked
    \/ InputKeyT
    \/ InputKeySpace
    \/ \E i \in Tasks : TaskStart(i)
    \/ \E i \in Tasks : TaskRecv(i)
    \/ \E i \in Tasks : TaskFinish(i)

SpecFair == Init /\ [][LiveNext]_vars /\ Fairness

\* A serial user: clicks and toggles only between runs, sends one advance
\* to a run that waits at the gate, and repeats the first run's endpoints.
Idle == \A i \in Tasks : tasks[i].pc = "finished"

Waiting(i) ==
    /\ tasks[i].pc = "gate"
    /\ tasks[i].rx # None
    /\ RecvResult(chan[Unwrap(tasks[i].rx)]) = "Pending"

Repeats(x, y) ==
    IF tasks = <<>> THEN TRUE
    ELSE IF start_block = None THEN tasks[1].start = Some(<<x, y>>)
    ELSE tasks[1].end = Some(<<x, y>>)

SerialInit ==
    /\ \E w \in 1 .. MaxWidth, h \in 1 .. MaxHeight : Ready(w, h, MaxWalls)
    /\ heap = {}
    /\ popped = <<>>

SerialNext ==
    \/ \E p \in Clicks :
          Idle /\ Repeats(p[1], p[2]) /\ on_block_clicked(p[1], p[2])
    \/ Idle /\ on_block_right_clicked
    \/ Idle /\ InputKeyT
    \/ (\E i \in Tasks : Waiting(i)) /\ InputKeySpace
    \/ \E i \in Tasks : TaskStart(i)
    \/ \E i \in Tasks : TaskRecv(i)
    \/ \E i \in Tasks : TaskFinish(i)

SpecSerial == SerialInit /\ [][SerialNext]_vars

\* A BinaryHeap<Node> on its own: any entries, popped until it is empty.
OrderingNodes ==
    {NodeNew(p, g, h) : p \in (0 .. MaxCoord) \X {0, MaxCoord},
                        g \in {0, MaxScore}, h \in 0 .. MaxScore}

HeapPop ==
    /\ heap # {}
    /\ popped' = Append(popped, HeapPeek(heap))
    /\ heap' = HeapRest(heap)
    /\ UNCHANGED gameVars

OrderingInit ==
    /\ Ready(1, 1, 0)
    /\ step_mode = FALSE
    /\ heap \in SubsetsUpTo(OrderingNodes, MaxHeapLen)
    /\ popped = <<>>

OrderingNext == HeapPop

SpecOrdering == OrderingInit /\ [][OrderingNext]_vars

\* The 5 x 5 grid without walls, with the serial user.
ScenarioInit ==
    /\ Ready(5, 5, 0)
    /\ heap = {}
    /\ popped = <<>>

ScenarioNext == SerialNext

SpecScenario == ScenarioInit /\ [][ScenarioNext]_vars

\* The user of a stepped run: two clicks start one run, and from then on the
\* only input is SPACE, pressed when the run waits at the gate with no
\* value pending (each signal is sent after the one before it was
\* consumed), and pressed again and again as long as the run waits.
StepInit ==
    /\ \E w \in 1 .. StepWidth, h \in 1 .. StepHeight :
          Ready(w, h, StepMaxWalls)
    /\ heap = {}
    /\ popped = <<>>

StepNext ==
    \/ \E p \in Clicks : tasks = <<>> /\ on_block_clicked(p[1], p[2])
    \/ (\E i \in Tasks : Waiting(i)) /\ InputKeySpace
    \/ \E i \in Tasks : TaskStart(i)
    \/ \E i \in Tasks : TaskRecv(i)
    \/ \E i \in Tasks : TaskFinish(i)

StepFairness ==
    /\ WF_vars((\E i \in Tasks : Waiting(i)) /\ InputKeySpace)
    /\ WF_vars(1 \in Tasks /\ TaskStart(1))
    /\ WF_vars(1 \in Tasks /\ TaskRecv(1))
    /\ WF_vars(1 \in Tasks /\ TaskFinish(1))

SpecStep == StepInit /\ [][StepNext]_vars /\ StepFairness

\* calculate_path on its own: a controller with any grid and with any start
\* and end block, set or not, and one task that calls calculate_path on it.
CallInit ==
    /\ \E w \in 1 .. MaxWidth, h \in 1 .. MaxHeight :
          /\ width = w
          /\ height = h
          /\ wall \in {[c \in Cells(w, h) |-> c \in W] :
                          W \in SubsetsUpTo(Cells(w, h), MaxWalls)}
    /\ start_block \in {None} \cup {Some(c) : c \in {d \in DOMAIN wall : ~wall[d]}}
    /\ end_block \in {None} \cup {Some(c) : c \in {d \in DOMAIN wall : ~wall[d]}}
    /\ blocks = [pos \in DOMAIN wall |->
                    IF pos \in end_block
                    THEN [BlockReady(FALSE) EXCEPT !.color = END_BLOCK_COLOR]
                    ELSE IF pos \in start_block
                    THEN [BlockReady(FALSE) EXCEPT !.color = START_BLOCK_COLOR]
                    ELSE BlockReady(wall[pos])]
    /\ step_mode \in BOOLEAN
    /\ is_processing = TRUE
    /\ tx = IF step_mode THEN Some(1) ELSE None
    /\ chan = IF step_mode THEN (1 :> NewChannel) ELSE <<>>
    /\ tasks = <<NewTask(start_block, end_block, tx)>>
    /\ fatal = {}
    /\ heap = {}
    /\ popped = <<>>

CallNext ==
    \/ TaskStart(1)
    \/ Waiting(1) /\ InputKeySpace
    \/ TaskRecv(1)
    \/ TaskFinish(1)

SpecCall == CallInit /\ [][CallNext]_vars

(***************************************************************************)
(* Reference definitions for the properties: 4-adjacency and the length    *)
(* of a shortest path by breadth-first search over the non-wall cells.     *)
(***************************************************************************)
Adjacent4(a, b) ==
    \/ a[1] = b[1] /\ (a[2] - b[2] = 1 \/ b[2] - a[2] = 1)
    \/ a[2] = b[2] /\ (a[1] - b[1] = 1 \/ b[1] - a[1] = 1)

Free == {c \in Cells(width, height) : ~wall[c]}

RECURSIVE BfsLength(_, _, _, _)
BfsLength(frontier, seen, depth, target) ==
    IF target \in frontier THEN depth
    ELSE LET next == {c \in Free \ seen : \E f \in frontier : Adjacent4(f, c)}
         IN  IF next = {} THEN -1
             ELSE BfsLength(next, seen \cup next, depth + 1, target)

\* The length of a shortest path from s to e, or -1 when there is none.
ShortestLength(s, e) == BfsLength({s}, {s}, 0, e)

StartOf(i) == Unwrap(tasks[i].start)

\* Following the predecessors from pos reaches target within fuel steps.
RECURSIVE ReachesBack(_, _, _, _)
ReachesBack(came_from, pos, target, fuel) ==
    IF pos = target THEN TRUE
    ELSE IF fuel = 0 \/ pos \notin DOMAIN came_from THEN FALSE
    ELSE ReachesBack(came_from, came_from[pos], target, fuel - 1)
EndOf(i) == Unwrap(tasks[i].end)

(***************************************************************************)
(* C1 - Optimality: whenever end is reachable from start, the path of a    *)
(* run that has returned has as many positions (start excluded, end        *)
(* included) as a shortest 4-connected path has edges.                     *)
(***************************************************************************)
C1_Optimality ==
    \A i \in Tasks :
        (Returned(tasks[i]) /\ ShortestLength(StartOf(i), EndOf(i)) >= 0)
            => Len(tasks[i].path) = ShortestLength(StartOf(i), EndOf(i))

(***************************************************************************)
(* C2 - Completeness: a run that has returned ended in Found exactly when  *)
(* end is reachable from start by breadth-first search, and in the         *)
(* no-path branch otherwise.                                               *)
(***************************************************************************)
C2_Completeness ==
    \A i \in Tasks :
        Returned(tasks[i]) =>
            IF ShortestLength(StartOf(i), EndOf(i)) >= 0
            THEN tasks[i].outcome = "Found"
            ELSE tasks[i].outcome = "NotFound"

C2_Witness ==
    \E i \in Tasks :
        /\ Returned(tasks[i])
        /\ tasks[i].outcome = "NotFound"
        /\ Len(tasks[i].expanded) >= 2
        /\ ShortestLength(StartOf(i), EndOf(i)) = -1

(***************************************************************************)
(* C3 - Soundness: in the path of a run that ended in Found, consecutive   *)
(* positions are 4-adjacent and no position is a wall, also when a link    *)
(* of the path was written while the same-f-score batch was processed.     *)
(***************************************************************************)
C3_Soundness ==
    \A i \in Tasks :
        tasks[i].outcome = "Found" =>
            /\ \A k \in 1 .. Len(tasks[i].path) - 1 :
                  Adjacent4(tasks[i].path[k], tasks[i].path[k + 1])
            /\ \A k \in 1 .. Len(tasks[i].path) :
                  /\ tasks[i].path[k] \in Cells(width, height)
                  /\ ~wall[tasks[i].path[k]]

C3_Witness ==
    \E i \in Tasks :
        /\ tasks[i].outcome = "Found"
        /\ \E k \in 1 .. Len(tasks[i].path) - 1 :
              tasks[i].path[k + 1] \in tasks[i].batched
        /\ \E c \in Cells(width, height) : wall[c]

(***************************************************************************)
(* C4 - Frontier ordering: the entries of a heap are popped in strictly    *)
(* ascending order of (f, h, x, y), and every popped entry precedes, in    *)
(* that order, every entry still held.                                     *)
(***************************************************************************)
KeyLess(a, b) ==
    \/ a.f_score < b.f_score
    \/ /\ a.f_score = b.f_score
       /\ \/ a.h_score < b.h_score
          \/ /\ a.h_score = b.h_score
             /\ \/ a.position[1] < b.position[1]
                \/ /\ a.position[1] = b.position[1]
                   /\ a.position[2] < b.position[2]

C4_FrontierOrdering ==
    /\ \A k \in 1 .. Len(popped) - 1 : KeyLess(popped[k], popped[k + 1])
    /\ \A k \in 1 .. Len(popped) : \A m \in heap : KeyLess(popped[k], m)

C4_Witness ==
    /\ Len(popped) = 3
    /\ popped[1].f_score = popped[2].f_score
    /\ popped[1].h_score = popped[2].h_score
    /\ popped[1].position[1] = popped[2].position[1]
    /\ popped[2].f_score = popped[3].f_score
    /\ popped[2].h_score # popped[3].h_score

C6_AtMostOneRunInFlight ==
    Cardinality({i \in Tasks : InFlight(tasks[i])}) <= 1

(***************************************************************************)
(* C7 - Step-mode equivalence: a run with the gate, advanced until it      *)
(* returned, and a run without it, for the same start and end, expanded    *)
(* the same positions in the same order and built the same path.           *)
(***************************************************************************)
SameEndpoints(i, j) ==
    tasks[i].start = tasks[j].start /\ tasks[i].end = tasks[j].end

SameResult(i, j) ==
    /\ tasks[i].expanded = tasks[j].expanded
    /\ tasks[i].path = tasks[j].path
    /\ tasks[i].outcome = tasks[j].outcome

C7_StepModeEquivalence ==
    \A i, j \in Tasks :
        ( /\ Returned(tasks[i]) /\ Returned(tasks[j])
          /\ tasks[i].rx = None /\ tasks[j].rx # None
          /\ SameEndpoints(i, j) )
            => SameResult(i, j)

C7_Witness ==
    \E i, j \in Tasks :
        /\ Returned(tasks[i]) /\ Returned(tasks[j])
        /\ tasks[i].rx = None /\ tasks[j].rx # None
        /\ SameEndpoints(i, j)
        /\ tasks[j].outcome = "Found"
        /\ tasks[j].received >= 3
        /\ tasks[j].batched # {}
        /\ Len(tasks[j].path) >= 3

C9_NoFatalError ==
    /\ fatal = {}
    /\ \A i \in Tasks : tasks[i].pc # "panicked"

(***************************************************************************)
(* C10 - A pressed SPACE while no run is at the step gate or on its way to *)
(* it (none spawned with a receiver that has not returned) changes         *)
(* nothing and raises no error.                                            *)
(***************************************************************************)
NoRunAtGate ==
    \A i \in Tasks :
        ~(tasks[i].rx # None /\ tasks[i].pc \in {"spawned", "gate"})

C10_IdleSpaceIsNoOp ==
    [][(NoRunAtGate /\ InputKeySpace) => UNCHANGED vars]_vars

(***************************************************************************)
(* C11 - Without step mode the gate is bypassed: a run spawned without a   *)
(* receiver is never at the gate, and, with no input needed, it reaches    *)
(* the end of its task with Found or NotFound, where is_processing is set  *)
(* back to false.                                                          *)
(***************************************************************************)
NonStepRun(i) == IF i \in Tasks THEN tasks[i].rx = None ELSE FALSE

NonStepRunDone(i) ==
    /\ NonStepRun(i)
    /\ tasks[i].pc = "finished"
    /\ tasks[i].outcome \in {"Found", "NotFound"}
    /\ ~is_processing

C11_NonStepRunCompletes ==
    \A i \in 1 .. MaxRuns :
        /\ [](NonStepRun(i) => tasks[i].pc \notin {"gate", "panicked"})
        /\ (NonStepRun(i) /\ tasks[i].pc # "finished") ~> NonStepRunDone(i)

C11_Witness ==
    \E i \in Tasks :
        /\ NonStepRunDone(i)
        /\ tasks[i].outcome = "Found"
        /\ Len(tasks[i].expanded) >= 2
        /\ tasks[i].received = 0

(***************************************************************************)
(* C12 - In step mode, a run to whose gate no advance signal was ever sent *)
(* stays suspended at its first suspension point: once polled it waits at  *)
(* the gate, has processed no popped node, has no outcome, and             *)
(* is_processing is true.                                                  *)
(***************************************************************************)
NoSignalSent(i) ==
    /\ tasks[i].rx # None
    /\ chan[Unwrap(tasks[i].rx)].pending = 0
    /\ tasks[i].received = 0

C12_SuspendedWithoutSignal ==
    \A i \in Tasks :
        (NoSignalSent(i) /\ tasks[i].pc # "spawned") =>
            /\ tasks[i].pc = "gate"
            /\ tasks[i].processed = 0
            /\ tasks[i].outcome = "none"
            /\ is_processing

(***************************************************************************)
(* C13 - The start and end roles are written only between runs: no step    *)
(* taken while is_processing is true changes start_block or end_block.     *)
(***************************************************************************)
C13_RolesWrittenOnlyBetweenRuns ==
    [][is_processing =>
          (start_block' = start_block /\ end_block' = end_block)]_vars

(***************************************************************************)
(* C14 - A left click on a wall or on a coordinate out of bounds changes   *)
(* nothing (no role, no flag, no gate, no run), and start_block and        *)
(* end_block, when set, name a non-wall block of the grid.                 *)
(***************************************************************************)
InvalidClick(p) ==
    IF p \in Cells(width, height) THEN wall[p] ELSE TRUE

RolesOnFreeBlocks ==
    \A r \in start_block \cup end_block :
        r \in Cells(width, height) /\ ~wall[r]

C14_InvalidClickRejected ==
    /\ []RolesOnFreeBlocks
    /\ [][\A p \in Clicks :
              (InvalidClick(p) /\ on_block_clicked(p[1], p[2]))
                  => UNCHANGED vars]_vars

C14_Witness ==
    /\ \E c \in Cells(width, height) : wall[c]
    /\ start_block # None
    /\ end_block # None
    /\ start_block # end_block
    /\ tasks # <<>>

(***************************************************************************)
(* C15 - The start and end roles are mutually exclusive: when both are     *)
(* set they name different blocks.                                         *)
(***************************************************************************)
C15_RolesMutuallyExclusive ==
    (start_block # None /\ end_block # None) => start_block # end_block

(***************************************************************************)
(* C16 - Role-completion trigger: a step spawns a run exactly when it sets *)
(* end_block, which it does only with start_block already set, and it      *)
(* spawns one run; while both roles are set no step changes a role except  *)
(* the clear, which unsets both and spawns nothing.                        *)
(***************************************************************************)
C16_RoleCompletionTrigger ==
    [][/\ (end_block = None /\ end_block' # None)
              <=> (Len(tasks') = Len(tasks) + 1)
       /\ Len(tasks') \in {Len(tasks), Len(tasks) + 1}
       /\ (end_block = None /\ end_block' # None)
              => (start_block # None /\ start_block' = start_block)
       /\ (start_block # None /\ end_block # None)
              => \/ /\ start_block' = start_block
                    /\ end_block' = end_block
                    /\ Len(tasks') = Len(tasks)
                 \/ /\ start_block' = None
                    /\ end_block' = None
                    /\ tasks' = tasks]_vars

C16_Witness ==
    /\ Len(tasks) = 2
    /\ start_block # None
    /\ end_block # None
    /\ tasks[1].start # tasks[2].start

(***************************************************************************)
(* C17 - A clear cancels the visualization writes of the runs in flight:   *)
(* a step of a run that waits at the gate and was started before a clear   *)
(* (a later run exists, or a role is unset since) leaves the color and the *)
(* labels of every block as they are.                                      *)
(***************************************************************************)
ClearedSinceSpawn(i) ==
    i < Len(tasks) \/ start_block = None \/ end_block = None

C17_ClearCancelsVisualization ==
    [][\A i \in Tasks :
          (tasks[i].pc = "gate" /\ ClearedSinceSpawn(i) /\ tasks'[i] # tasks[i])
              => blocks' = blocks]_vars

(***************************************************************************)
(* C18 - The gate is single-use per run: the sender held in Game.tx is     *)
(* dropped, cleared or replaced only when calculate_path of the run it was *)
(* created for has returned.                                               *)
(***************************************************************************)
C18_SenderKeptWhileRunInFlight ==
    [][\A c \in tx : c \in tx' \/ Returned(tasks[c])]_vars

(***************************************************************************)
(* C19 - Path reconstruction: the path of a run that ended in Found with   *)
(* start # end is ordered from start to end: its first position is         *)
(* adjacent to start, its last position is end, consecutive positions are  *)
(* adjacent, start is not in it and no position is in it twice.            *)
(***************************************************************************)
C19_PathFromStartToEnd ==
    \A i \in Tasks :
        (tasks[i].outcome = "Found" /\ tasks[i].start # tasks[i].end) =>
            LET path == tasks[i].path
            IN  /\ path # <<>>
                /\ Adjacent4(StartOf(i), path[1])
                /\ path[Len(path)] = EndOf(i)
                /\ \A k \in 1 .. Len(path) - 1 : Adjacent4(path[k], path[k + 1])
                /\ \A k \in 1 .. Len(path) : path[k] # StartOf(i)
                /\ \A k, m \in 1 .. Len(path) : path[k] = path[m] => k = m

(***************************************************************************)
(* C20 - When start and end are the same block, the run ends in Found with *)
(* an empty path: the start node is popped and recognised as the goal (one *)
(* node processed), no position is expanded into the closed set and no     *)
(* neighbor is pushed onto the frontier.                                   *)
(***************************************************************************)
C20_StartEqualsEnd ==
    \A i \in Tasks :
        (tasks[i].start = tasks[i].end /\ tasks[i].start # None) =>
            /\ tasks[i].expanded = <<>>
            /\ tasks[i].pushed = 0
            /\ tasks[i].path = <<>>
            /\ tasks[i].outcome \in {"none", "Found"}
            /\ Returned(tasks[i]) =>
                  /\ tasks[i].outcome = "Found"
                  /\ tasks[i].processed = 1

C20_Witness ==
    \E i, j \in Tasks :
        /\ tasks[i].start = tasks[i].end /\ tasks[i].start # None
        /\ tasks[j].start = tasks[j].end /\ tasks[j].start # None
        /\ Returned(tasks[i]) /\ tasks[i].rx = None
        /\ Returned(tasks[j]) /\ tasks[j].received = 1
        /\ Cardinality(Cells(width, height)) > 1

(***************************************************************************)
(* C21 - On the 5 x 5 grid without walls, a run from (0,0) to (4,4) that   *)
(* has returned ended in Found and its reconstructed path has length 8.    *)
(***************************************************************************)
C21_ScenarioPathLength ==
    \A i \in Tasks :
        (/\ width = 5 /\ height = 5
         /\ \A c \in Cells(width, height) : ~wall[c]
         /\ tasks[i].start = Some(<<0, 0>>)
         /\ tasks[i].end = Some(<<4, 4>>)
         /\ Returned(tasks[i])) =>
            /\ tasks[i].outcome = "Found"
            /\ Len(tasks[i].path) = 8

C21_Witness ==
    \E i \in Tasks :
        /\ width = 5 /\ height = 5
        /\ \A c \in Cells(width, height) : ~wall[c]
        /\ tasks[i].start = Some(<<0, 0>>)
        /\ tasks[i].end = Some(<<4, 4>>)
        /\ Returned(tasks[i])
        /\ tasks[i].received > 1

(***************************************************************************)
(* C22 - The search never recolors or re-annotates its start or end cell:  *)
(* a step of a run (the initial reset, an expansion, the neighbors it      *)
(* discovers, the same-f-score batch, the path highlighting) leaves the    *)
(* color and the f, g, h labels of the blocks at the run's start and end   *)
(* position as they are.                                                   *)
(***************************************************************************)
C22_EndpointsNotRecolored ==
    [][\A i \in Tasks :
          (tasks'[i] # tasks[i] /\ tasks[i].start # None /\ tasks[i].end # None)
              => /\ blocks'[StartOf(i)] = blocks[StartOf(i)]
                 /\ blocks'[EndOf(i)] = blocks[EndOf(i)]]_vars

C22_Witness ==
    \E i \in Tasks :
        /\ Returned(tasks[i])
        /\ tasks[i].outcome = "Found"
        /\ Len(tasks[i].path) >= 3
        /\ tasks[i].batched # {}
        /\ blocks[StartOf(i)].color = START_BLOCK_COLOR
        /\ blocks[EndOf(i)].color = END_BLOCK_COLOR
        /\ \E pos \in DOMAIN blocks : blocks[pos].color = PATH_BLOCK_COLOR
        /\ \E pos \in DOMAIN blocks : blocks[pos].color = CLOSED_BLOCK_COLOR

(***************************************************************************)
(* C23 - Relaxation rule: the cost recorded for a position that has a      *)
(* predecessor is the cost recorded for that predecessor plus 1, and every *)
(* frontier entry carries the cost recorded for its position (seen while   *)
(* the run waits at the gate, its maps alive).                             *)
(***************************************************************************)
C23_RelaxationRule ==
    \A i \in Tasks :
        tasks[i].pc = "gate" =>
            /\ \A n \in DOMAIN tasks[i].came_from :
                  /\ n \in DOMAIN tasks[i].g_scores
                  /\ tasks[i].came_from[n] \in DOMAIN tasks[i].g_scores
                  /\ tasks[i].g_scores[n]
                        = tasks[i].g_scores[tasks[i].came_from[n]] + 1
            /\ \A node \in tasks[i].open_set :
                  node.g_score = Get(tasks[i].g_scores, node.position, I32Max)

C25_SettledAtMostOnce ==
    \A i \in Tasks :
        LET t == tasks[i]
            expanded == {t.expanded[k] : k \in 1 .. Len(t.expanded)}
        IN  /\ \A k, m \in 1 .. Len(t.expanded) :
                  t.expanded[k] = t.expanded[m] => k = m
            /\ t.pushed < Cardinality(Cells(width, height))
            /\ t.pc = "gate" =>
                  /\ t.closed_set = expanded
                  /\ \A node \in t.open_set \cup t.current :
                        node.position \notin t.closed_set
                  /\ \A node, other \in t.open_set \cup t.current :
                        node.position = other.position => node = other

C25_Witness ==
    \E i \in Tasks :
        /\ tasks[i].pc = "gate"
        /\ Cardinality(tasks[i].closed_set) >= 3
        /\ tasks[i].batched # {}
        /\ tasks[i].open_set # {}
        /\ \E pos \in tasks[i].closed_set :
              \E k \in 2 .. Len(tasks[i].expanded) :
                  Adjacent4(pos, tasks[i].expanded[k])
                      /\ pos \in {tasks[i].expanded[m] : m \in 1 .. k - 1}

(***************************************************************************)
(* C26 - calculate_path called while start_block or end_block is not set   *)
(* returns at once as not ready: it never waits at the gate, pushes and    *)
(* expands no node, records no predecessor and builds no path, raises no   *)
(* fatal error and leaves start_block and end_block as they are.           *)
(***************************************************************************)
C26_NotReadyReturnsAtOnce ==
    \A i \in Tasks :
        (start_block = None \/ end_block = None) =>
            /\ tasks[i].pc \in {"spawned", "sleeping", "finished"}
            /\ tasks[i].start = start_block
            /\ tasks[i].end = end_block
            /\ tasks[i].pushed = 0
            /\ tasks[i].expanded = <<>>
            /\ tasks[i].processed = 0
            /\ tasks[i].received = 0
            /\ tasks[i].came_from = <<>>
            /\ tasks[i].path = <<>>
            /\ fatal = {}
            /\ tasks[i].pc # "spawned" => tasks[i].outcome = "NotReady"

C26_Witness ==
    \E i \in Tasks :
        /\ start_block # None
        /\ end_block = None
        /\ tasks[i].rx # None
        /\ tasks[i].pc = "finished"
        /\ tasks[i].outcome = "NotReady"
        /\ Cardinality(DOMAIN wall) > 1

(***************************************************************************)
(* C27 - is_processing tracks the run lifecycle: whenever some run that    *)
(* has begun (it waits at the gate, or in the sleep after calculate_path)  *)
(* is short of the end of its task, is_processing is true.                 *)
(***************************************************************************)
C27_ProcessingWhileRunInFlight ==
    (\E i \in Tasks : tasks[i].pc \in {"gate", "sleeping"}) => is_processing

(***************************************************************************)
(* C28 - In step mode, a single run whose advance signals are sent one at  *)
(* a time (each after the one before it was consumed), with no other input,*)
(* never dies and eventually completes: it reaches the end of its task     *)
(* with Found or NotFound, and then is_processing is false and tx is None. *)
(***************************************************************************)
StepRun(i) == IF i \in Tasks THEN tasks[i].rx # None ELSE FALSE

StepRunDone(i) ==
    /\ StepRun(i)
    /\ tasks[i].pc = "finished"
    /\ tasks[i].outcome \in {"Found", "NotFound"}
    /\ ~is_processing
    /\ tx = None

C28_SteppedRunCompletes ==
    /\ [](StepRun(1) => (tasks[1].pc # "panicked" /\ fatal = {}))
    /\ [](StepRunDone(1) => tasks[1].received = tasks[1].gated)
    /\ (StepRun(1) /\ tasks[1].pc # "finished") ~> StepRunDone(1)

C28_Witness ==
    /\ StepRunDone(1)
    /\ tasks[1].received >= 3
    /\ Len(tasks[1].path) >= 2

(***************************************************************************)
(* C29 - The predecessor map is acyclic and rooted at start: start has no  *)
(* predecessor, following the predecessors from a position that has one    *)
(* reaches start within as many steps as the map has entries, and the loop *)
(* of reconstruct_path has always ended.                                   *)
(***************************************************************************)
C29_PredecessorsRootedAtStart ==
    \A i \in Tasks :
        /\ tasks[i].outcome # "Diverged"
        /\ tasks[i].pc = "gate" =>
              /\ StartOf(i) \notin DOMAIN tasks[i].came_from
              /\ \A pos \in DOMAIN tasks[i].came_from :
                    ReachesBack(tasks[i].came_from, pos, StartOf(i),
                                Cardinality(DOMAIN tasks[i].came_from))

C29_Witness ==
    \E i, j \in Tasks :
        /\ tasks[i].pc = "gate"
        /\ Cardinality(DOMAIN tasks[i].came_from) >= 4
        /\ \E pos \in DOMAIN tasks[i].came_from :
              ~ReachesBack(tasks[i].came_from, pos, StartOf(i), 2)
        /\ Returned(tasks[j])
        /\ tasks[j].outcome = "Found"
        /\ Len(tasks[j].path) >= 3

(***************************************************************************)
(* C30 - The step-mode setting is constant for the duration of a run: no   *)
(* step taken while some run that has begun (it waits at the gate, or in   *)
(* the sleep after calculate_path) is short of the end of its task changes *)
(* step_mode.                                                              *)
(***************************************************************************)
C30_StepModeConstantDuringRun ==
    [][(\E i \in Tasks : tasks[i].pc \in {"gate", "sleeping"})
          => step_mode' = step_mode]_vars

====
